---- MODULE Spec2Model ----
(***************************************************************************)
(* Resume ATS backend (src/main.py): the POST /api/parse-resume handler.   *)
(*                                                                         *)
(* A request carries the bytes of a PDF.  The handler draws a fresh file   *)
(* id, uploads the bytes to object storage, extracts the text of the       *)
(* pages, analyses the text against the keyword and section tables and     *)
(* returns either the analysis record or, when any step raised, a 500      *)
(* response holding the exception's message.                               *)
(*                                                                         *)
(* Text is a sequence of one-character strings, so that lower(), strip(),  *)
(* split(), the substring tests and the word-boundary regular expression   *)
(* are computed character by character as Python computes them.  Keywords *)
(* and section headers are named by TLA+ strings; Chars gives the          *)
(* characters of each.                                                     *)
(***************************************************************************)
EXTENDS Integers, Sequences, FiniteSets, TLC

\* ------------------------------------------------------------------ bounds

\* A PDF of the model has at most MaxPages pages.
MaxPages == 2

\* uuid.uuid4() draws one of NumIds file ids.
NumIds == 2

\* ------------------------------------------------------------------ tables

CATEGORIES == <<"technical", "uiux", "business">>

CATEGORY_KEYWORDS ==
    [technical |-> <<"python", "java", "c++", "javascript", "react", "nodejs", "django",
                     "flask", "html", "css", "sql", "mongodb", "mysql", "git", "github",
                     "linux", "aws", "docker", "kubernetes">>,
     uiux      |-> <<"figma", "adobe xd", "photoshop", "illustrator", "ux", "ui",
                     "wireframing", "branding", "canva", "visual design">>,
     business  |-> <<"seo", "sem", "content marketing", "social media", "facebook ads",
                     "google ads", "email marketing", "analytics", "brand development",
                     "project management", "digital marketing">>]

\* [kw for lst in CATEGORY_KEYWORDS.values() for kw in lst]: a dict keeps insertion order.
ALL_KEYWORDS ==
    CATEGORY_KEYWORDS[CATEGORIES[1]] \o CATEGORY_KEYWORDS[CATEGORIES[2]]
        \o CATEGORY_KEYWORDS[CATEGORIES[3]]

SECTION_HEADERS ==
    <<"summary", "education", "experience", "projects", "skills", "certifications",
      "achievements">>

\* The alternatives of the regular expression \b(bachelor|master|education|degree)\b.
EDUCATION_WORDS == <<"bachelor", "master", "education", "degree">>

experience_keywords == <<"experience", "years", "worked", "intern", "project", "developed">>

SUGGESTIONS ==
    <<"Include more technical and role-specific keywords to boost your ATS ranking.",
      "Add a professional summary at the top of your resume.",
      "Include relevant projects to demonstrate your practical experience.",
      "Mention more tools or platforms like Git, Figma, or AWS.",
      "Clearly specify your educational background.",
      "Add work experience, internships, or personal projects.",
      "Include a dedicated skills section listing your tools and technologies.">>

\* The characters of every keyword, section header and vocabulary word.
Chars ==
    ("python" :> <<"p", "y", "t", "h", "o", "n">>)
    @@ ("java" :> <<"j", "a", "v", "a">>)
    @@ ("c++" :> <<"c", "+", "+">>)
    @@ ("javascript" :> <<"j", "a", "v", "a", "s", "c", "r", "i", "p", "t">>)
    @@ ("react" :> <<"r", "e", "a", "c", "t">>)
    @@ ("nodejs" :> <<"n", "o", "d", "e", "j", "s">>)
    @@ ("django" :> <<"d", "j", "a", "n", "g", "o">>)
    @@ ("flask" :> <<"f", "l", "a", "s", "k">>)
    @@ ("html" :> <<"h", "t", "m", "l">>)
    @@ ("css" :> <<"c", "s", "s">>)
    @@ ("sql" :> <<"s", "q", "l">>)
    @@ ("mongodb" :> <<"m", "o", "n", "g", "o", "d", "b">>)
    @@ ("mysql" :> <<"m", "y", "s", "q", "l">>)
    @@ ("git" :> <<"g", "i", "t">>)
    @@ ("github" :> <<"g", "i", "t", "h", "u", "b">>)
    @@ ("linux" :> <<"l", "i", "n", "u", "x">>)
    @@ ("aws" :> <<"a", "w", "s">>)
    @@ ("docker" :> <<"d", "o", "c", "k", "e", "r">>)
    @@ ("kubernetes" :> <<"k", "u", "b", "e", "r", "n", "e", "t", "e", "s">>)
    @@ ("figma" :> <<"f", "i", "g", "m", "a">>)
    @@ ("adobe xd" :> <<"a", "d", "o", "b", "e", " ", "x", "d">>)
    @@ ("photoshop" :> <<"p", "h", "o", "t", "o", "s", "h", "o", "p">>)
    @@ ("illustrator" :> <<"i", "l", "l", "u", "s", "t", "r", "a", "t", "o", "r">>)
    @@ ("ux" :> <<"u", "x">>)
    @@ ("ui" :> <<"u", "i">>)
    @@ ("wireframing" :> <<"w", "i", "r", "e", "f", "r", "a", "m", "i", "n", "g">>)
    @@ ("branding" :> <<"b", "r", "a", "n", "d", "i", "n", "g">>)
    @@ ("canva" :> <<"c", "a", "n", "v", "a">>)
    @@ ("visual design" :> <<"v", "i", "s", "u", "a", "l", " ", "d", "e", "s", "i", "g",
           "n">>)
    @@ ("seo" :> <<"s", "e", "o">>)
    @@ ("sem" :> <<"s", "e", "m">>)
    @@ ("content marketing" :> <<"c", "o", "n", "t", "e", "n", "t", " ", "m", "a", "r", "k",
           "e", "t", "i", "n", "g">>)
    @@ ("social media" :> <<"s", "o", "c", "i", "a", "l", " ", "m", "e", "d", "i", "a">>)
    @@ ("facebook ads" :> <<"f", "a", "c", "e", "b", "o", "o", "k", " ", "a", "d", "s">>)
    @@ ("google ads" :> <<"g", "o", "o", "g", "l", "e", " ", "a", "d", "s">>)
    @@ ("email marketing" :> <<"e", "m", "a", "i", "l", " ", "m", "a", "r", "k", "e", "t",
           "i", "n", "g">>)
    @@ ("analytics" :> <<"a", "n", "a", "l", "y", "t", "i", "c", "s">>)
    @@ ("brand development" :> <<"b", "r", "a", "n", "d", " ", "d", "e", "v", "e", "l", "o",
           "p", "m", "e", "n", "t">>)
    @@ ("project management" :> <<"p", "r", "o", "j", "e", "c", "t", " ", "m", "a", "n",
           "a", "g", "e", "m", "e", "n", "t">>)
    @@ ("digital marketing" :> <<"d", "i", "g", "i", "t", "a", "l", " ", "m", "a", "r", "k",
           "e", "t", "i", "n", "g">>)
    @@ ("summary" :> <<"s", "u", "m", "m", "a", "r", "y">>)
    @@ ("education" :> <<"e", "d", "u", "c", "a", "t", "i", "o", "n">>)
    @@ ("experience" :> <<"e", "x", "p", "e", "r", "i", "e", "n", "c", "e">>)
    @@ ("projects" :> <<"p", "r", "o", "j", "e", "c", "t", "s">>)
    @@ ("skills" :> <<"s", "k", "i", "l", "l", "s">>)
    @@ ("certifications" :> <<"c", "e", "r", "t", "i", "f", "i", "c", "a", "t", "i", "o",
           "n", "s">>)
    @@ ("achievements" :> <<"a", "c", "h", "i", "e", "v", "e", "m", "e", "n", "t", "s">>)
    @@ ("bachelor" :> <<"b", "a", "c", "h", "e", "l", "o", "r">>)
    @@ ("master" :> <<"m", "a", "s", "t", "e", "r">>)
    @@ ("degree" :> <<"d", "e", "g", "r", "e", "e">>)
    @@ ("years" :> <<"y", "e", "a", "r", "s">>)
    @@ ("worked" :> <<"w", "o", "r", "k", "e", "d">>)
    @@ ("intern" :> <<"i", "n", "t", "e", "r", "n">>)
    @@ ("project" :> <<"p", "r", "o", "j", "e", "c", "t">>)
    @@ ("developed" :> <<"d", "e", "v", "e", "l", "o", "p", "e", "d">>)

\* ------------------------------------------------------------------ characters

UPPER_TO_LOWER ==
    ("A" :> "a") @@ ("B" :> "b") @@ ("C" :> "c") @@ ("D" :> "d") @@ ("E" :> "e")
    @@ ("F" :> "f") @@ ("G" :> "g") @@ ("H" :> "h") @@ ("I" :> "i") @@ ("J" :> "j")
    @@ ("K" :> "k") @@ ("L" :> "l") @@ ("M" :> "m") @@ ("N" :> "n") @@ ("O" :> "o")
    @@ ("P" :> "p") @@ ("Q" :> "q") @@ ("R" :> "r") @@ ("S" :> "s") @@ ("T" :> "t")
    @@ ("U" :> "u") @@ ("V" :> "v") @@ ("W" :> "w") @@ ("X" :> "x") @@ ("Y" :> "y")
    @@ ("Z" :> "z")

UPPER == DOMAIN UPPER_TO_LOWER

\* The characters str.strip() removes and str.split() splits at.
WHITESPACE == {" ", "\t", "\n", "\r"}

\* What \w matches: letters, digits and the underscore.
WORD_CHARS ==
    UPPER \cup {UPPER_TO_LOWER[c] : c \in UPPER}
        \cup {"0", "1", "2", "3", "4", "5", "6", "7", "8", "9", "_"}

LowerChar(c) == IF c \in UPPER THEN UPPER_TO_LOWER[c] ELSE c

\* str.lower()
\* (\o makes the result a tuple, so that a character is lowered once)
Lower(s) == [i \in 1..Len(s) |-> LowerChar(s[i])] \o <<>>

\* sub in s: sub occurs at some position of s (the empty string at every position).
Contains(sub, s) ==
    \/ sub = <<>>
    \/ \E i \in 1..(Len(s) - Len(sub) + 1) :
          s[i] = sub[1] /\ \A j \in 2..Len(sub) : s[i + j - 1] = sub[j]

\* str.strip(): s without its leading and trailing whitespace.
Strip(s) ==
    IF \A i \in 1..Len(s) : s[i] \in WHITESPACE THEN <<>>
    ELSE LET first == CHOOSE i \in 1..Len(s) :
                          s[i] \notin WHITESPACE /\ \A k \in 1..(i - 1) : s[k] \in WHITESPACE
             last  == CHOOSE i \in 1..Len(s) :
                          s[i] \notin WHITESPACE /\ \A k \in (i + 1)..Len(s) : s[k] \in WHITESPACE
         IN  SubSeq(s, first, last)

\* len(s.split()): the number of maximal runs of non-whitespace characters.
WordCount(s) ==
    Cardinality({i \in 1..Len(s) :
                    s[i] \notin WHITESPACE /\ (i = 1 \/ s[i - 1] \in WHITESPACE)})

\* s.split("\n"): the pieces of s between its line breaks, one more than the breaks.
SplitLines(s) ==
    LET breaks == {i \in 1..Len(s) : s[i] = "\n"}
        edges  == breaks \cup {0, Len(s) + 1}
        \* the piece that starts right after the edge b
        Piece(b) == SubSeq(s, b + 1, (CHOOSE e \in edges : e > b /\ \A k \in edges : k > b => e <= k) - 1)
        \* the edge with n edges before it
        Edge(n) == CHOOSE b \in edges : Cardinality({k \in edges : k < b}) = n
    IN  [n \in 1..(Cardinality(breaks) + 1) |-> Piece(Edge(n - 1))]

\* "\n".join(parts)
RECURSIVE JoinLines(_)
JoinLines(parts) ==
    IF parts = <<>> THEN <<>>
    ELSE IF Len(parts) = 1 THEN parts[1]
    ELSE parts[1] \o <<"\n">> \o JoinLines(Tail(parts))

\* [line.strip() for line in text.split("\n") if line.strip()]
NonBlankLines(text) ==
    LET split == SplitLines(text)
        stripped == [i \in 1..Len(split) |-> Strip(split[i])]
        NonEmpty(l) == l # <<>>
    IN  SelectSeq(stripped, NonEmpty)

\* re.search(r"\b(bachelor|master|education|degree)\b", text, re.I): an alternative
\* occurs, letters compared without case, with no \w character on either side.
WordMatchAt(word, text, i) ==
    /\ LowerChar(text[i]) = word[1]
    /\ \A j \in 2..Len(word) : LowerChar(text[i + j - 1]) = word[j]
    /\ (i = 1 \/ text[i - 1] \notin WORD_CHARS)
    /\ (i + Len(word) - 1 = Len(text) \/ text[i + Len(word)] \notin WORD_CHARS)

EducationRegexMatches(text) ==
    \E w \in 1..Len(EDUCATION_WORDS) :
        LET word == Chars[EDUCATION_WORDS[w]]
        IN  \E i \in 1..(Len(text) - Len(word) + 1) : WordMatchAt(word, text, i)


\* ------------------------------------------------------------------ the analysis

NOT_DETECTED_NAME == <<"N", "o", "t", " ", "D", "e", "t", "e", "c", "t", "e", "d">>

\* Variant: the percentage rounded to the nearest integer instead of cut.
PercentRounded(n, d) == (2 * n * 100 + d) \div (2 * d)

\* int((n / d) * 100): int() drops the fraction.  The double-precision quotient and
\* product give the exact integer part for every n in 0..d with d = 40 and d = 7.
Percent(n, d) == (n * 100) \div d

\* lines[0] if 1 <= len(lines[0].split()) <= 4 else "Not Detected"   (lines is not empty)
DetectName(lines) ==
    IF 1 <= WordCount(lines[1]) /\ WordCount(lines[1]) <= 4 THEN lines[1]
    ELSE NOT_DETECTED_NAME

\* Variant: the education words matched as substrings, like the section headers.
DetectEducationSubstring(text) ==
    IF \E w \in 1..Len(EDUCATION_WORDS) : Contains(Chars[EDUCATION_WORDS[w]], Lower(text))
    THEN "Detected" ELSE "Not Detected"

DetectEducation(text) ==
    IF EducationRegexMatches(text) THEN "Detected" ELSE "Not Detected"

\* any(word in text.lower() for word in experience_keywords)
DetectExperience(text) ==
    LET lowered == Lower(text)
    IN  IF \E w \in 1..Len(experience_keywords) :
                Contains(Chars[experience_keywords[w]], lowered)
        THEN "Detected" ELSE "Not Detected"

\* [kw for kw in kws if kw.lower() in text.lower()]
MatchIn(kws, text) ==
    LET lowered == Lower(text)
        Matches(kw) == Contains(Lower(Chars[kw]), lowered)
    IN  SelectSeq(kws, Matches)

MatchedKeywords(text) == MatchIn(ALL_KEYWORDS, text)

\* Variant: the categories matched against the text as written, not lowered.
MatchedByCategoryCaseSensitive(text) ==
    [cat \in {CATEGORIES[i] : i \in 1..Len(CATEGORIES)} |->
        LET Matches(kw) == Contains(Chars[kw], text)
        IN  SelectSeq(CATEGORY_KEYWORDS[cat], Matches)]

MatchedByCategory(text) ==
    [cat \in {CATEGORIES[i] : i \in 1..Len(CATEGORIES)} |->
        MatchIn(CATEGORY_KEYWORDS[cat], text)]

\* [sec for sec in SECTION_HEADERS if sec in text.lower()]
PresentSections(text) ==
    LET lowered == Lower(text)
        Present(sec) == Contains(Chars[sec], lowered)
    IN  SelectSeq(SECTION_HEADERS, Present)

\* Variant: the first present section is not taken out.
MissingSectionsOffByOne(present, order) ==
    LET Missing(sec) == \A i \in 2..Len(present) : present[i] # sec
    IN  SelectSeq(order, Missing)

\* list(set(SECTION_HEADERS) - set(present_sections)): the elements of the difference
\* in the order the process's string hashing iterates them.
MissingSections(present, order) ==
    LET Missing(sec) == \A i \in 1..Len(present) : present[i] # sec
    IN  SelectSeq(order, Missing)

\* Variant: the weighted sum rounded to the nearest integer instead of cut.
AtsScoreRounded(skill_score, section_score) ==
    (6 * skill_score + 4 * section_score + 5) \div 10

\* int((skill_score * 0.6) + (section_score * 0.4)); the double-precision sum gives the
\* exact integer part for every pair of scores Percent produces.
AtsScore(skill_score, section_score) == (6 * skill_score + 4 * section_score) \div 10

InList(x, list) == \E i \in 1..Len(list) : list[i] = x

\* Variant: the tools suggestion is made for eight matched keywords too.
SuggestUpToEight(skill_score, present, matched, education, experience) ==
    (IF skill_score < 60 THEN <<SUGGESTIONS[1]>> ELSE <<>>)
    \o (IF ~InList("summary", present) THEN <<SUGGESTIONS[2]>> ELSE <<>>)
    \o (IF ~InList("projects", present) THEN <<SUGGESTIONS[3]>> ELSE <<>>)
    \o (IF Len(matched) <= 8 THEN <<SUGGESTIONS[4]>> ELSE <<>>)
    \o (IF education = "Not Detected" THEN <<SUGGESTIONS[5]>> ELSE <<>>)
    \o (IF experience = "Not Detected" THEN <<SUGGESTIONS[6]>> ELSE <<>>)
    \o (IF ~InList("skills", present) THEN <<SUGGESTIONS[7]>> ELSE <<>>)

\* Variant: the comparison of the first condition is turned around.
SuggestAboveSixty(skill_score, present, matched, education, experience) ==
    (IF skill_score > 60 THEN <<SUGGESTIONS[1]>> ELSE <<>>)
    \o (IF ~InList("summary", present) THEN <<SUGGESTIONS[2]>> ELSE <<>>)
    \o (IF ~InList("projects", present) THEN <<SUGGESTIONS[3]>> ELSE <<>>)
    \o (IF Len(matched) < 8 THEN <<SUGGESTIONS[4]>> ELSE <<>>)
    \o (IF education = "Not Detected" THEN <<SUGGESTIONS[5]>> ELSE <<>>)
    \o (IF experience = "Not Detected" THEN <<SUGGESTIONS[6]>> ELSE <<>>)
    \o (IF ~InList("skills", present) THEN <<SUGGESTIONS[7]>> ELSE <<>>)

\* The seven `if ...: suggestions.append(...)` statements, in program order.
Suggest(skill_score, present, matched, education, experience) ==
    (IF skill_score < 60 THEN <<SUGGESTIONS[1]>> ELSE <<>>)
    \o (IF ~InList("summary", present) THEN <<SUGGESTIONS[2]>> ELSE <<>>)
    \o (IF ~InList("projects", present) THEN <<SUGGESTIONS[3]>> ELSE <<>>)
    \o (IF Len(matched) < 8 THEN <<SUGGESTIONS[4]>> ELSE <<>>)
    \o (IF education = "Not Detected" THEN <<SUGGESTIONS[5]>> ELSE <<>>)
    \o (IF experience = "Not Detected" THEN <<SUGGESTIONS[6]>> ELSE <<>>)
    \o (IF ~InList("skills", present) THEN <<SUGGESTIONS[7]>> ELSE <<>>)

SUPABASE_URL == "SUPABASE_URL"
SUPABASE_BUCKET == "resumes"

\* f"{SUPABASE_URL}/storage/v1/object/public/{SUPABASE_BUCKET}/{filename}" with
\* filename = f"{file_id}.pdf": the pieces of the formatted string, in order.
FileUrl(id) == <<SUPABASE_URL, "/storage/v1/object/public/", SUPABASE_BUCKET, "/", id, ".pdf">>

Reverse(list) == [i \in 1..Len(list) |-> list[Len(list) + 1 - i]]

\* Variant: the iteration order of a set changes from call to call.
SetOrderPerCall(order, id) == IF id = 1 THEN order ELSE Reverse(order)

\* The order in which the call with file id `id` iterates a set of section headers:
\* the order of the process, whatever the call.
SetOrder(order, id) == order

\* The dictionary parse_resume returns, from the text of the document.
AnalysisRecord(text, id, order) ==
    LET lines            == NonBlankLines(text)
        education        == DetectEducation(text)
        experience       == DetectExperience(text)
        matched_keywords == MatchedKeywords(text)
        skill_score      == Percent(Len(matched_keywords), Len(ALL_KEYWORDS))
        present          == PresentSections(text)
        section_score    == Percent(Len(present), Len(SECTION_HEADERS))
    IN  [file_url            |-> FileUrl(id),
         name                |-> DetectName(lines),
         education           |-> education,
         experience          |-> experience,
         skills              |-> matched_keywords,
         matched_by_category |-> MatchedByCategory(text),
         ats_score           |-> AtsScore(skill_score, section_score),
         ats_score_breakdown |-> [skill_score |-> skill_score, section_score |-> section_score],
         missing_sections    |-> MissingSections(present, SetOrder(order, id)),
         suggestions         |-> Suggest(skill_score, present, matched_keywords,
                                         education, experience)]

ANALYSIS_FIELDS ==
    {"file_url", "name", "education", "experience", "skills", "matched_by_category",
     "ats_score", "ats_score_breakdown", "missing_sections", "suggestions"}

\* return JSONResponse(content={"error": str(e)}, status_code=500)
ErrorResponse(message) == [status |-> 500, body |-> [error |-> message]]

\* A returned dictionary is sent with status 200.
OkResponse(record) == [status |-> 200, body |-> record]

NO_RESPONSE == [status |-> 0, body |-> [error |-> ""]]

\* ------------------------------------------------------------------ documents

\* A page is the value of page.extract_text(): None or a text.
NONE_PAGE == [is_none |-> TRUE, text |-> <<>>]
TextPage(t) == [is_none |-> FALSE, text |-> t]

\* page.extract_text() or ""
TextOrEmpty(page) == IF page.is_none \/ page.text = <<>> THEN <<>> ELSE page.text

\* "\n".join([page.extract_text() or "" for page in pdf.pages])
ExtractText(pages) == JoinLines([i \in 1..Len(pages) |-> TextOrEmpty(pages[i])])


\* Page texts.

\* Three lines: "John Smith", "Experience: developed a Django project using Python and
\* Git." and "Education: Bachelor degree."
SCENARIO_A == <<"J", "o", "h", "n", " ", "S", "m", "i", "t", "h", "\n", "E", "x", "p", "e",
    "r", "i", "e", "n", "c", "e", ":", " ", "d", "e", "v", "e", "l", "o", "p", "e", "d",
    " ", "a", " ", "D", "j", "a", "n", "g", "o", " ", "p", "r", "o", "j", "e", "c", "t",
    " ", "u", "s", "i", "n", "g", " ", "P", "y", "t", "h", "o", "n", " ", "a", "n", "d",
    " ", "G", "i", "t", ".", "\n", "E", "d", "u", "c", "a", "t", "i", "o", "n", ":", " ",
    "B", "a", "c", "h", "e", "l", "o", "r", " ", "d", "e", "g", "r", "e", "e", ".">>

\* The line "  SKILLS: JAVASCRIPT, MYSQL, GITHUB " and a line holding a space and a tab.
UPPER_SKILLS == <<" ", " ", "S", "K", "I", "L", "L", "S", ":", " ", "J", "A", "V", "A", "S",
    "C", "R", "I", "P", "T", ",", " ", "M", "Y", "S", "Q", "L", ",", " ", "G", "I", "T",
    "H", "U", "B", " ", "\n", " ", "\t">>

\* The line "summary, educational experience, projects, skills, certifications,
\* achievements": every section header, "education" inside a longer word.
GLUED_HEADERS == <<"s", "u", "m", "m", "a", "r", "y", ",", " ", "e", "d", "u", "c", "a",
    "t", "i", "o", "n", "a", "l", " ", "e", "x", "p", "e", "r", "i", "e", "n", "c", "e",
    ",", " ", "p", "r", "o", "j", "e", "c", "t", "s", ",", " ", "s", "k", "i", "l", "l",
    "s", ",", " ", "c", "e", "r", "t", "i", "f", "i", "c", "a", "t", "i", "o", "n", "s",
    ",", " ", "a", "c", "h", "i", "e", "v", "e", "m", "e", "n", "t", "s">>

\* sep.join(the characters of each word)
RECURSIVE JoinWords(_, _)
JoinWords(words, sep) ==
    IF words = <<>> THEN <<>>
    ELSE IF Len(words) = 1 THEN Chars[words[1]]
    ELSE Chars[words[1]] \o sep \o JoinWords(Tail(words), sep)

\* The technical keywords on one line and the design keywords on the next.
TECH_DESIGN_PAGE ==
    JoinLines(<<JoinWords(CATEGORY_KEYWORDS.technical, <<",", " ">>),
                JoinWords(CATEGORY_KEYWORDS.uiux, <<",", " ">>)>>)

\* Every section header on a line of its own, then the business keywords on one line.
BUSINESS_RESUME ==
    JoinLines(<<JoinWords(SECTION_HEADERS, <<"\n">>),
                JoinWords(CATEGORY_KEYWORDS.business, <<",", " ">>)>>)

\* The same with the section headers on the one line of GLUED_HEADERS.
BUSINESS_GLUED ==
    JoinLines(<<GLUED_HEADERS, JoinWords(CATEGORY_KEYWORDS.business, <<",", " ">>)>>)

PAGE_TEXTS == {SCENARIO_A, UPPER_SKILLS, TECH_DESIGN_PAGE, BUSINESS_RESUME, BUSINESS_GLUED}

PAGES == {NONE_PAGE} \cup {TextPage(t) : t \in PAGE_TEXTS}

\* The uploaded bytes: a PDF pdfplumber opens, with its pages, or bytes it rejects.
NOT_A_PDF == [valid |-> FALSE, pages |-> <<>>]

DOCUMENTS ==
    {NOT_A_PDF} \cup
    UNION {{[valid |-> TRUE, pages |-> p] : p \in [1..n -> PAGES]} : n \in 0..MaxPages}

\* The orders in which one process may iterate a set of the section headers: string
\* hashing is seeded once, when the process starts.
HASH_ORDERS ==
    {SECTION_HEADERS,
     <<"achievements", "skills", "summary", "certifications", "education", "projects",
       "experience">>}

FILE_IDS == 1..NumIds

\* ------------------------------------------------------------------ state

VARIABLES
    hash_order,        \* the iteration order of this process's string sets
    pc,                \* where the handler is: idle, upload, extract, analyse, done
    contents,          \* the bytes read from the uploaded file
    file_id,           \* str(uuid.uuid4())
    upload_response,   \* what the storage upload returned: unset, ok, error
    text,              \* the extracted text
    present_sections,  \* the section headers found in the text
    ran,               \* the steps of the handler that ran for this request, in order
    resp,              \* the response to this request
    prev               \* the response and steps of the previous request, when this
                       \* request sends the same bytes again; otherwise NO_PREV

vars ==
    <<hash_order, pc, contents, file_id, upload_response, text, present_sections, ran,
      resp, prev>>

NO_PREV == [resp |-> NO_RESPONSE, ran |-> <<>>]

Init ==
    /\ hash_order \in HASH_ORDERS
    /\ pc = "idle"
    /\ contents = NOT_A_PDF
    /\ file_id = 1
    /\ upload_response = "unset"
    /\ text = <<>>
    /\ present_sections = <<>>
    /\ ran = <<>>
    /\ resp = NO_RESPONSE
    /\ prev = NO_PREV

\* contents = await file.read(); file_id = str(uuid.uuid4())
Start(doc, id, previous) ==
    /\ contents' = doc
    /\ file_id' = id
    /\ upload_response' = "unset"
    /\ text' = <<>>
    /\ present_sections' = <<>>
    /\ ran' = <<>>
    /\ resp' = NO_RESPONSE
    /\ prev' = previous
    /\ pc' = "upload"
    /\ UNCHANGED hash_order

\* A client posts a document.
Receive ==
    /\ pc = "idle"
    /\ \E doc \in DOCUMENTS, id \in FILE_IDS : Start(doc, id, NO_PREV)

\* A client posts the document of the request just answered once more.
Resubmit ==
    /\ pc = "done"
    /\ \E id \in FILE_IDS : Start(contents, id, [resp |-> resp, ran |-> ran])

\* The except clause: the handler ends with the 500 response.
Fail(message) ==
    /\ resp' = ErrorResponse(message)
    /\ pc' = "done"

\* Variant: the response of the upload is not looked at.
UploadErrorIgnored(response) == FALSE

\* `hasattr(upload_response, "error") and upload_response.error`
UploadReportsError(response) == response = "error"

\* supabase.storage.from_(SUPABASE_BUCKET).upload(...) returns a response without an
\* error, returns one with an error, or raises; then the check of the response.
Upload ==
    /\ pc = "upload"
    /\ ran' = Append(ran, "upload")
    /\ \/ \E response \in {"ok", "error"} :
             /\ upload_response' = response
             /\ IF UploadReportsError(response)
                THEN Fail("Supabase upload error")
                ELSE pc' = "extract" /\ UNCHANGED resp
       \/ /\ Fail("storage exception")
          /\ UNCHANGED upload_response
    /\ UNCHANGED <<hash_order, contents, file_id, text, present_sections, prev>>

\* with pdfplumber.open(BytesIO(contents)) as pdf: text = "\n".join(...)
Extract ==
    /\ pc = "extract"
    /\ ran' = Append(ran, "extract")
    /\ IF contents.valid
       THEN /\ text' = ExtractText(contents.pages)
            /\ pc' = "analyse"
            /\ UNCHANGED resp
       ELSE /\ Fail("pdf exception")
            /\ UNCHANGED text
    /\ UNCHANGED <<hash_order, contents, file_id, upload_response, present_sections, prev>>

\* Lines 83 to 136: lines[0] raises IndexError when no line is left; otherwise the
\* record is returned.
Analyse ==
    /\ pc = "analyse"
    /\ ran' = Append(ran, "analyse")
    /\ IF NonBlankLines(text) = <<>>
       THEN /\ Fail("list index out of range")
            /\ UNCHANGED present_sections
       ELSE /\ present_sections' = PresentSections(text)
            /\ resp' = OkResponse(AnalysisRecord(text, file_id, hash_order))
            /\ pc' = "done"
    /\ UNCHANGED <<hash_order, contents, file_id, upload_response, text, prev>>

\* The response has been sent: the handler's locals are gone and the next request is
\* unrelated to this one.
Return ==
    /\ pc = "done"
    /\ pc' = "idle"
    /\ contents' = NOT_A_PDF
    /\ file_id' = 1
    /\ upload_response' = "unset"
    /\ text' = <<>>
    /\ present_sections' = <<>>
    /\ ran' = <<>>
    /\ resp' = NO_RESPONSE
    /\ prev' = NO_PREV
    /\ UNCHANGED hash_order

Next == Receive \/ Resubmit \/ Upload \/ Extract \/ Analyse \/ Return

Spec == Init /\ [][Next]_vars

\* ------------------------------------------------------------------ claims

SetOf(list) == {list[i] : i \in 1..Len(list)}

\* The handler has answered the request.
Answered == pc = "done"

\* The handler has answered with the analysis record.
Returned == pc = "done" /\ resp.status = 200

\* The analysis step ran for this request (it returned the record or raised).
AnalysisRan == pc = "done" /\ InList("analyse", ran)

\* C1: in every returned record the two component scores and ats_score lie in 0..100
\* and ats_score is the integer part of skill_score * 0.6 + section_score * 0.4, that
\* is (3 * skill_score + 2 * section_score) div 5.
C1_ScoresBoundedAndWeighted ==
    Returned =>
        LET skill   == resp.body.ats_score_breakdown.skill_score
            section == resp.body.ats_score_breakdown.section_score
            ats     == resp.body.ats_score
        IN  /\ 0 <= skill /\ skill <= 100
            /\ 0 <= section /\ section <= 100
            /\ 0 <= ats /\ ats <= 100
            /\ ats = (3 * skill + 2 * section) \div 5

\* A record whose weighted sum has a fraction of one half or more: truncation and
\* rounding differ on it.
C1_Witness ==
    /\ Returned
    /\ (3 * resp.body.ats_score_breakdown.skill_score
          + 2 * resp.body.ats_score_breakdown.section_score) % 5 >= 3

\* C2: when the extracted text holds nothing but whitespace the analysis returns the
\* complete record of an empty resume: both sentinels, no skills, zero scores, every
\* section missing and all seven suggestions in order.
C2_BlankTextGivesEmptyRecord ==
    (AnalysisRan /\ \A i \in 1..Len(text) : text[i] \in WHITESPACE) =>
        /\ resp.status = 200
        /\ resp.body.name = NOT_DETECTED_NAME
        /\ resp.body.education = "Not Detected"
        /\ resp.body.experience = "Not Detected"
        /\ resp.body.skills = <<>>
        /\ resp.body.ats_score_breakdown.skill_score = 0
        /\ resp.body.ats_score_breakdown.section_score = 0
        /\ resp.body.ats_score = 0
        /\ SetOf(resp.body.missing_sections) = SetOf(SECTION_HEADERS)
        /\ resp.body.suggestions = SUGGESTIONS

\* The text holds every keyword and every section header as written in the tables.
HoldsEverything(t) ==
    /\ \A k \in 1..Len(ALL_KEYWORDS) : Contains(Chars[ALL_KEYWORDS[k]], t)
    /\ \A k \in 1..Len(SECTION_HEADERS) : Contains(Chars[SECTION_HEADERS[k]], t)

FullScores ==
    /\ resp.status = 200
    /\ resp.body.ats_score_breakdown.section_score = 100
    /\ resp.body.ats_score_breakdown.skill_score = 100
    /\ resp.body.ats_score = 100
    /\ resp.body.missing_sections = <<>>

\* C3 as stated: a text holding every section header and every keyword gets the three
\* scores 100, no missing section and no suggestion.
C3_FullTextNoSuggestion ==
    (AnalysisRan /\ HoldsEverything(text)) => (FullScores /\ resp.body.suggestions = <<>>)

\* C3: a text holding every section header and every keyword gets the three scores 100
\* and no missing section; its only possible suggestion is the one about education,
\* made exactly when education is "Not Detected" (no education word stands as a whole
\* word in the text).
C3_FullTextOnlyEducationSuggestion ==
    (AnalysisRan /\ HoldsEverything(text)) =>
        /\ FullScores
        /\ resp.body.experience = "Detected"
        /\ resp.body.education =
              (IF EducationRegexMatches(text) THEN "Detected" ELSE "Not Detected")
        /\ resp.body.suggestions =
              IF resp.body.education = "Not Detected" THEN <<SUGGESTIONS[5]>> ELSE <<>>

\* A full text in which "education" occurs only inside "educational".
C3_Witness ==
    /\ AnalysisRan
    /\ HoldsEverything(text)
    /\ resp.status = 200
    /\ resp.body.education = "Not Detected"

\* C4: the suggestions of a returned record are the items of the checklist whose
\* condition holds, each once, in checklist order.
C4_SuggestionsAreChecklist ==
    Returned =>
        LET holds == <<resp.body.ats_score_breakdown.skill_score < 60,
                       "summary" \notin SetOf(present_sections),
                       "projects" \notin SetOf(present_sections),
                       Len(resp.body.skills) < 8,
                       resp.body.education = "Not Detected",
                       resp.body.experience = "Not Detected",
                       "skills" \notin SetOf(present_sections)>>
            Holds(i) == holds[i]
            chosen == SelectSeq(<<1, 2, 3, 4, 5, 6, 7>>, Holds)
        IN  /\ Len(resp.body.suggestions) = Len(chosen)
            /\ \A k \in 1..Len(chosen) : resp.body.suggestions[k] = SUGGESTIONS[chosen[k]]

\* A record with exactly eight matched keywords, where the fourth condition is just false
\* and the first still true.
C4_Witness ==
    /\ Returned
    /\ Len(resp.body.skills) = 8
    /\ resp.body.suggestions[1] = SUGGESTIONS[1]

\* C5: present_sections and missing_sections split the section headers: together they
\* are all of them, they share none, and missing_sections repeats none.
C5_SectionsPartition ==
    Returned =>
        /\ SetOf(present_sections) \cup SetOf(resp.body.missing_sections)
              = SetOf(SECTION_HEADERS)
        /\ SetOf(present_sections) \cap SetOf(resp.body.missing_sections) = {}
        /\ Cardinality(SetOf(resp.body.missing_sections)) = Len(resp.body.missing_sections)

\* A record with some sections present and some missing.
C5_Witness ==
    /\ Returned
    /\ Len(present_sections) >= 2
    /\ Len(resp.body.missing_sections) >= 2

\* The concatenation of by_category[c] over the categories in table order.
RECURSIVE FlattenCategories(_, _)
FlattenCategories(by_category, cats) ==
    IF cats = <<>> THEN <<>>
    ELSE by_category[Head(cats)] \o FlattenCategories(by_category, Tail(cats))

\* a holds elements of b only, in the order of b, none twice (b repeats nothing).
InOrderOf(a, b) ==
    LET Kept(x) == x \in SetOf(a)
    IN  a = SelectSeq(b, Kept)

\* C6: matched_by_category has a list for every category, each list holds keywords of
\* its category only, in table order, and skills is the lists joined in category
\* order, no keyword twice.
C6_CategoryIntegrity ==
    Returned =>
        LET by_category == resp.body.matched_by_category
        IN  /\ DOMAIN by_category = SetOf(CATEGORIES)
            /\ \A c \in SetOf(CATEGORIES) : InOrderOf(by_category[c], CATEGORY_KEYWORDS[c])
            /\ resp.body.skills = FlattenCategories(by_category, CATEGORIES)
            /\ Cardinality(SetOf(resp.body.skills)) = Len(resp.body.skills)

\* A record with matches in upper case in the text, in one category only.
C6_Witness ==
    /\ Returned
    /\ Len(resp.body.matched_by_category.technical) = 6
    /\ resp.body.matched_by_category.uiux = <<>>
    /\ resp.body.matched_by_category.business = <<>>

\* The analysis ran for this request and for the previous request with the same bytes.
AnalysedTwice == AnalysisRan /\ InList("analyse", prev.ran)

IsNearest(score, n, d) ==
    /\ 2 * (score * d - 100 * n) <= d
    /\ 2 * (100 * n - score * d) <= d

\* C8 as stated: each component score is its coverage percentage rounded to the nearest
\* integer.
C8_ScoresRounded ==
    Returned =>
        /\ IsNearest(resp.body.ats_score_breakdown.skill_score,
                     Len(resp.body.skills), Len(ALL_KEYWORDS))
        /\ IsNearest(resp.body.ats_score_breakdown.section_score,
                     Len(present_sections), Len(SECTION_HEADERS))

\* score is the integer part of 100 * n / d.
IsFloor(score, n, d) == score * d <= 100 * n /\ 100 * n < (score + 1) * d

\* C8: each component score is the integer part of its coverage percentage:
\* skill_score of 100 * matched / 40 and section_score of 100 * present / 7.
C8_ScoresTruncated ==
    Returned =>
        /\ IsFloor(resp.body.ats_score_breakdown.skill_score,
                   Len(resp.body.skills), Len(ALL_KEYWORDS))
        /\ IsFloor(resp.body.ats_score_breakdown.section_score,
                   Len(present_sections), Len(SECTION_HEADERS))

\* Two of seven sections: 28, not 29.
C8_Witness ==
    /\ Returned
    /\ Len(present_sections) = 2
    /\ resp.body.ats_score_breakdown.section_score = 28

\* C9: an answered request has either the complete record, after all three steps, or
\* the 500 response holding the error message only; and when the upload reported an
\* error it is the 500 response, with the upload the only step that ran.
C9_RecordOrError ==
    Answered =>
        /\ \/ /\ resp.status = 200
              /\ DOMAIN resp.body = ANALYSIS_FIELDS
              /\ ran = <<"upload", "extract", "analyse">>
           \/ /\ resp.status = 500
              /\ DOMAIN resp.body = {"error"}
        /\ upload_response = "error" => (resp.status = 500 /\ ran = <<"upload">>)

\* A request whose upload reported an error.
C9_Witness == Answered /\ upload_response = "error" /\ resp.status = 500

\* C10: in a returned record the suggestion about tools comes only with the one about
\* keywords, and the suggestion about experience only when "experience" and
\* "projects" are both missing, so only with the one about projects.
C10_SuggestionsDepend ==
    Returned =>
        LET made == SetOf(resp.body.suggestions)
            missing == SetOf(resp.body.missing_sections)
        IN  /\ SUGGESTIONS[4] \in made => SUGGESTIONS[1] \in made
            /\ SUGGESTIONS[6] \in made =>
                  /\ "experience" \in missing
                  /\ "projects" \in missing
                  /\ SUGGESTIONS[3] \in made

\* A record that carries the suggestions about tools and about experience.
C10_Witness ==
    /\ Returned
    /\ SUGGESTIONS[4] \in SetOf(resp.body.suggestions)
    /\ SUGGESTIONS[6] \in SetOf(resp.body.suggestions)

====
